---- MODULE Spec2Model ----
(***************************************************************************)
(* slotgraph: a directed graph stored in two generational slot arenas.    *)
(*                                                                         *)
(*   src/src/slotgraph.rs     SlotGraph<K, N, E>: nodes / edges SlotMaps   *)
(*   src/examples/adj_graph.rs AdjGraph: a SlotGraph plus adj_in / adj_out *)
(*   src/src/lib.rs           SlotGraph<K, V>: a nodes SlotMap plus        *)
(*                            adj_in / adj_out lists of node keys          *)
(*                                                                         *)
(* SlotGraph delegates every operation to slotmap::SlotMap (crate slotmap  *)
(* 1.0, basic.rs).  The arena is modelled as that crate implements it: a   *)
(* vector of slots, each with a u32 version (odd = occupied, even =        *)
(* vacant), a free list threaded through the vacant slots (free_head,      *)
(* next_free), and num_elems.  insert panics when num_elems + 1 ==         *)
(* u32::MAX; remove bumps the version with wrapping_add(1).                *)
(* The two u32 ranges are scaled down: U32_MAX stands for u32::MAX as the  *)
(* index / element-count limit and VersionBits for the 32 version bits.    *)
(***************************************************************************)
EXTENDS Integers, Sequences, FiniteSets, TLC

\* stands for u32::MAX in `new_num_elems == core::u32::MAX`; the ceiling of
\* live entries is U32_MAX - 1 (2^32 - 2 in the source)
U32_MAX == 3

\* width of Slot::version in bits (32 in the source)
VersionBits == 2

VersionMod == 2 ^ VersionBits

\* longest history of calls explored
MaxCalls == 7

\* payloads of type N and E
Payloads == {"a", "b"}

None == <<"None">>

\* a call that panicked instead of returning
Panic == <<"Panic">>

\* a call that returned x
Ok(x) == <<"Ok", x>>

Some(x) == <<"Some", x>>

unwrap(o) == o[2]

\* KeyData { idx, version }
KeyData(i, v) == [idx |-> i, version |-> v]

\* KeyData::null(): idx u32::MAX, version 1 (what K::default() gives)
NullKey == KeyData(U32_MAX, 1)

OddVersions == {v \in 0..(VersionMod - 1) : v % 2 = 1}

\* every key value a caller can hold: KeyData is public and both key types
\* implement From<KeyData>
AllKeys == {KeyData(i, v) : i \in 1..(U32_MAX - 1), v \in OddVersions} \cup {NullKey}

\* the node keys given to SlotGraph::insert_edge as from / to: the key of the
\* first node (live, removed or not yet issued, as the history goes) and one
\* no graph ever issues
EndKeys == {KeyData(1, 1), NullKey}

\* the node keys given to AdjGraph::insert_edge as from / to: the first key
\* of every slot (the ones an AdjGraph issues, as it never removes), a key
\* of a later generation of the first slot, and the null key
AdjEndKeys == {KeyData(i, 1) : i \in 1..(U32_MAX - 1)} \cup {KeyData(1, 3), NullKey}

(***************************************************************************)
(* slotmap::SlotMap.  slots[i] is the slot of index i; the sentinel slot   *)
(* of index 0 (version 0, never occupied) is left implicit, so the         *)
(* source's slots.len() is Len(slots) + 1.                                 *)
(***************************************************************************)
\* Slot { u: SlotUnion { value }, version }
Occupied(value, version) == [version |-> version, u |-> [value |-> value]]

\* Slot { u: SlotUnion { next_free }, version }
Vacant(next_free, version) == [version |-> version, u |-> [next_free |-> next_free]]

\* Slot::occupied(): self.version % 2 > 0
occupied(slot) == slot.version % 2 > 0

SlotMap_with_key == [slots |-> <<>>, free_head |-> 1, num_elems |-> 0]

\* slot.version | 1
OrOne(v) == IF v % 2 = 0 THEN v + 1 ELSE v

\* slot.version.wrapping_add(1)
WrapVersion(v) == v % VersionMod

wrapping_add(v) == WrapVersion(v + 1)

SlotMap_contains_key(m, key) ==
    /\ key.idx \in 1..Len(m.slots)
    /\ m.slots[key.idx].version = key.version

SlotMap_get(m, key) ==
    IF SlotMap_contains_key(m, key) THEN Some(m.slots[key.idx].u.value) ELSE None

\* len counting the slots ever allocated instead of the elements
SlotMap_len_slots(m) == Len(m.slots)

SlotMap_len(m) == m.num_elems

\* SlotMap::insert: [map, ret]; ret is the new key, or Panic
SlotMap_insert(m, value) ==
    IF m.num_elems + 1 = U32_MAX
    THEN [map |-> m, ret |-> Panic]
    ELSE IF m.free_head <= Len(m.slots)
    THEN LET slot == m.slots[m.free_head]
             occupied_version == OrOne(slot.version)
         IN  [map |-> [slots |-> [m.slots EXCEPT ![m.free_head] = Occupied(value, occupied_version)],
                       free_head |-> slot.u.next_free,
                       num_elems |-> m.num_elems + 1],
              ret |-> Ok(KeyData(m.free_head, occupied_version))]
    ELSE LET idx == Len(m.slots) + 1
         IN  [map |-> [slots |-> Append(m.slots, Occupied(value, 1)),
                       free_head |-> idx + 1,
                       num_elems |-> m.num_elems + 1],
              ret |-> Ok(KeyData(idx, 1))]

\* SlotMap::remove: [map, ret]; ret is Some(value) or None
SlotMap_remove(m, key) ==
    IF SlotMap_contains_key(m, key)
    THEN LET slot == m.slots[key.idx]
         IN  [map |-> [slots |-> [m.slots EXCEPT ![key.idx] = Vacant(m.free_head, wrapping_add(slot.version))],
                       free_head |-> key.idx,
                       num_elems |-> m.num_elems - 1],
              ret |-> Some(slot.u.value)]
    ELSE [map |-> m, ret |-> None]

\* iter stopping after the first len() slots
SlotMap_iter_by_len(m) ==
    LET F[i \in 0..m.num_elems] ==
            IF i = 0 THEN <<>>
            ELSE IF occupied(m.slots[i])
                 THEN Append(F[i - 1], <<KeyData(i, m.slots[i].version), m.slots[i].u.value>>)
                 ELSE F[i - 1]
    IN  F[m.num_elems]

\* SlotMap::iter: the occupied slots in index order, as <<key, value>>
SlotMap_iter(m) ==
    LET F[i \in 0..Len(m.slots)] ==
            IF i = 0 THEN <<>>
            ELSE IF occupied(m.slots[i])
                 THEN Append(F[i - 1], <<KeyData(i, m.slots[i].version), m.slots[i].u.value>>)
                 ELSE F[i - 1]
    IN  F[Len(m.slots)]

(***************************************************************************)
(* SlotGraph (src/src/slotgraph.rs): the record [nodes, edges] of two      *)
(* SlotMaps.  Every operation returns [sg, ret]: the graph after the call  *)
(* and the value returned.                                                 *)
(***************************************************************************)
NodeValue(value) == [value |-> value]

EdgeValue(from, to, value) == [from |-> from, to |-> to, value |-> value]

\* Option::map(|n| n.value)
MapValue(o) == IF o = None THEN None ELSE Some(unwrap(o).value)

\* Option::map(|e| (e.from, e.to))
MapEnds(o) == IF o = None THEN None ELSE Some(<<unwrap(o).from, unwrap(o).to>>)

with_key == [nodes |-> SlotMap_with_key, edges |-> SlotMap_with_key]

insert_node(g, value) ==
    LET r == SlotMap_insert(g.nodes, NodeValue(value))
    IN  [sg |-> [g EXCEPT !.nodes = r.map], ret |-> r.ret]

\* the edge arena without the edges that have `key` as an endpoint
RemoveIncident(m, key) ==
    LET F[i \in 0..Len(m.slots)] ==
            IF i = 0 THEN m
            ELSE IF /\ occupied(F[i - 1].slots[i])
                    /\ key \in {F[i - 1].slots[i].u.value.from, F[i - 1].slots[i].u.value.to}
                 THEN SlotMap_remove(F[i - 1], KeyData(i, F[i - 1].slots[i].version)).map
                 ELSE F[i - 1]
    IN  F[Len(m.slots)]

\* remove_node as a cascading delete: the node's edges go with it
remove_node_cascading(g, key) ==
    LET r == SlotMap_remove(g.nodes, key)
    IN  [sg |-> [nodes |-> r.map,
                 edges |-> IF r.ret = None THEN g.edges ELSE RemoveIncident(g.edges, key)],
         ret |-> MapValue(r.ret)]

remove_node(g, key) ==
    LET r == SlotMap_remove(g.nodes, key)
    IN  [sg |-> [g EXCEPT !.nodes = r.map], ret |-> MapValue(r.ret)]

get_node(g, key) == MapValue(SlotMap_get(g.nodes, key))

\* get_node_mut, and the caller storing `value` through the &mut N it got
get_node_mut(g, key, value) ==
    IF SlotMap_contains_key(g.nodes, key)
    THEN [sg |-> [g EXCEPT !.nodes.slots[key.idx].u.value.value = value],
          ret |-> Some(g.nodes.slots[key.idx].u.value.value)]
    ELSE [sg |-> g, ret |-> None]

node_len(g) == SlotMap_len(g.nodes)

\* insert_edge with the endpoints stored the wrong way round
insert_edge_swapped(g, from, to, value) ==
    LET r == SlotMap_insert(g.edges, EdgeValue(to, from, value))
    IN  [sg |-> [g EXCEPT !.edges = r.map], ret |-> r.ret]

\* insert_edge refusing endpoints that are not live nodes
insert_edge_checked(g, from, to, value) ==
    LET r == SlotMap_insert(g.edges, EdgeValue(from, to, value))
    IN  IF SlotMap_contains_key(g.nodes, from) /\ SlotMap_contains_key(g.nodes, to)
        THEN [sg |-> [g EXCEPT !.edges = r.map], ret |-> r.ret]
        ELSE [sg |-> g, ret |-> Panic]

insert_edge(g, from, to, value) ==
    LET r == SlotMap_insert(g.edges, EdgeValue(from, to, value))
    IN  [sg |-> [g EXCEPT !.edges = r.map], ret |-> r.ret]

\* remove_edge taking the node with the same slot index and version along
remove_edge_conflated(g, key) ==
    LET r == SlotMap_remove(g.edges, key)
    IN  [sg |-> [nodes |-> IF r.ret = None THEN g.nodes ELSE SlotMap_remove(g.nodes, key).map,
                 edges |-> r.map],
         ret |-> MapValue(r.ret)]

remove_edge(g, key) ==
    LET r == SlotMap_remove(g.edges, key)
    IN  [sg |-> [g EXCEPT !.edges = r.map], ret |-> MapValue(r.ret)]

get_edge(g, key) == MapValue(SlotMap_get(g.edges, key))

\* get_edge_mut, and the caller storing `value` through the &mut E it got
get_edge_mut(g, key, value) ==
    IF SlotMap_contains_key(g.edges, key)
    THEN [sg |-> [g EXCEPT !.edges.slots[key.idx].u.value.value = value],
          ret |-> Some(g.edges.slots[key.idx].u.value.value)]
    ELSE [sg |-> g, ret |-> None]

edge_len(g) == SlotMap_len(g.edges)

get_edge_nodes(g, key) == MapEnds(SlotMap_get(g.edges, key))

\* the sequence an iterator yields; Iterator::map(|(k, n)| (k, &n.value))
iter_nodes(g) ==
    LET it == SlotMap_iter(g.nodes)
    IN  [i \in 1..Len(it) |-> <<it[i][1], it[i][2].value>>]

iter_edges(g) ==
    LET it == SlotMap_iter(g.edges)
    IN  [i \in 1..Len(it) |-> <<it[i][1], it[i][2].value>>]

iter_edge_nodes(g) ==
    LET it == SlotMap_iter(g.edges)
    IN  [i \in 1..Len(it) |-> <<it[i][1], <<it[i][2].from, it[i][2].to>> >>]

(***************************************************************************)
(* slotmap::SecondaryMap (secondary.rs): a vector of slots indexed by the  *)
(* key's idx, each Occupied { value, version } or Vacant (version 0).      *)
(* slots[i] is the slot of index i; the slot of index 0 is always vacant   *)
(* and left implicit.                                                      *)
(***************************************************************************)
SecondaryMap_new == <<>>

SecOccupied(version, value) == [version |-> version, value |-> value]

SecVacant == [version |-> 0, value |-> <<>>]

\* Key::is_null
is_null(key) == key.idx = U32_MAX

\* is_older_version(a, b): a.wrapping_sub(b) >= 2^31
is_older_version(a, b) == ((a - b) % VersionMod) >= VersionMod \div 2

\* self.slots.extend((self.slots.len()..=kd.idx).map(|_| Slot::new_vacant()))
SecExtend(slots, idx) ==
    [i \in 1..(IF idx > Len(slots) THEN idx ELSE Len(slots)) |->
        IF i <= Len(slots) THEN slots[i] ELSE SecVacant]

\* SecondaryMap::insert: the map after the call
SecondaryMap_insert(slots, key, value) ==
    IF is_null(key) THEN slots
    ELSE LET ext == SecExtend(slots, key.idx)
             slot == ext[key.idx]
         IN  IF slot.version = key.version
             THEN [ext EXCEPT ![key.idx].value = value]
             ELSE IF slot.version # 0 /\ is_older_version(key.version, slot.version)
             THEN ext
             ELSE [ext EXCEPT ![key.idx] = SecOccupied(key.version, value)]

\* SecondaryMap::get / get_mut: Some(value) when the slot holds the key's version
SecondaryMap_get(slots, key) ==
    IF key.idx \in 1..Len(slots) /\ slots[key.idx].version = key.version
    THEN Some(slots[key.idx].value)
    ELSE None

(***************************************************************************)
(* AdjGraph (src/examples/adj_graph.rs): [sg, adj_in, adj_out].  The       *)
(* mutating operations return [ag, ret]; when ret is Panic, ag is what     *)
(* the call left behind as it unwound.                                     *)
(***************************************************************************)
AdjGraph_with_key == [sg |-> with_key, adj_in |-> SecondaryMap_new, adj_out |-> SecondaryMap_new]

\* insert_node that gives the new node no incoming list
AdjGraph_insert_node_no_in(ag, value) ==
    LET r == insert_node(ag.sg, value)
    IN  IF r.ret = Panic THEN [ag |-> ag, ret |-> Panic]
        ELSE [ag |-> [sg |-> r.sg,
                      adj_in |-> ag.adj_in,
                      adj_out |-> SecondaryMap_insert(ag.adj_out, unwrap(r.ret), <<>>)],
              ret |-> r.ret]

AdjGraph_insert_node(ag, value) ==
    LET r == insert_node(ag.sg, value)
    IN  IF r.ret = Panic THEN [ag |-> ag, ret |-> Panic]
        ELSE LET key == unwrap(r.ret)
             IN  [ag |-> [sg |-> r.sg,
                          adj_in |-> SecondaryMap_insert(ag.adj_in, key, <<>>),
                          adj_out |-> SecondaryMap_insert(ag.adj_out, key, <<>>)],
                  ret |-> r.ret]

\* the pair put at the front of the list instead of the back
PushFront(slots, at, pair) == [slots EXCEPT ![at.idx].value = <<pair>> \o @]

\* self.adj_out.get_mut(from).unwrap().push((key, to)), given it is Some
Push(slots, at, pair) == [slots EXCEPT ![at.idx].value = Append(@, pair)]

\* insert_edge recording (key, to) in the incoming list too
AdjGraph_insert_edge_wrong_in(ag, from, to, value) ==
    LET r == insert_edge(ag.sg, from, to, value)
    IN  IF r.ret = Panic THEN [ag |-> ag, ret |-> Panic]
        ELSE LET key == unwrap(r.ret)
                 ag1 == [ag EXCEPT !.sg = r.sg]
             IN  IF SecondaryMap_get(ag1.adj_out, from) = None
                 THEN [ag |-> ag1, ret |-> Panic]
                 ELSE LET ag2 == [ag1 EXCEPT !.adj_out = Push(@, from, <<key, to>>)]
                      IN  IF SecondaryMap_get(ag2.adj_in, to) = None
                          THEN [ag |-> ag2, ret |-> Panic]
                          ELSE [ag |-> [ag2 EXCEPT !.adj_in = Push(@, to, <<key, to>>)],
                                ret |-> r.ret]

\* insert_edge skipping the list of an endpoint that has none (if let Some)
AdjGraph_insert_edge_lenient(ag, from, to, value) ==
    LET r == insert_edge(ag.sg, from, to, value)
    IN  IF r.ret = Panic THEN [ag |-> ag, ret |-> Panic]
        ELSE LET key == unwrap(r.ret)
                 ag1 == [ag EXCEPT !.sg = r.sg]
                 ag2 == IF SecondaryMap_get(ag1.adj_out, from) = None THEN ag1
                        ELSE [ag1 EXCEPT !.adj_out = Push(@, from, <<key, to>>)]
                 ag3 == IF SecondaryMap_get(ag2.adj_in, to) = None THEN ag2
                        ELSE [ag2 EXCEPT !.adj_in = Push(@, to, <<key, from>>)]
             IN  [ag |-> ag3, ret |-> r.ret]

AdjGraph_insert_edge(ag, from, to, value) ==
    LET r == insert_edge(ag.sg, from, to, value)
    IN  IF r.ret = Panic THEN [ag |-> ag, ret |-> Panic]
        ELSE LET key == unwrap(r.ret)
                 ag1 == [ag EXCEPT !.sg = r.sg]
             IN  IF SecondaryMap_get(ag1.adj_out, from) = None
                 THEN [ag |-> ag1, ret |-> Panic]
                 ELSE LET ag2 == [ag1 EXCEPT !.adj_out = Push(@, from, <<key, to>>)]
                      IN  IF SecondaryMap_get(ag2.adj_in, to) = None
                          THEN [ag |-> ag2, ret |-> Panic]
                          ELSE [ag |-> [ag2 EXCEPT !.adj_in = Push(@, to, <<key, from>>)],
                                ret |-> r.ret]

\* the sequence of the i-th components of a sequence of pairs
MapNth(pairs, i) == [j \in 1..Len(pairs) |-> pairs[j][i]]

\* Option<iterator> as Option<the sequence it yields>
MapIter(o, i) == IF o = None THEN None ELSE Some(MapNth(unwrap(o), i))

out_edges(ag, from) == MapIter(SecondaryMap_get(ag.adj_out, from), 1)

out_nodes(ag, from) == MapIter(SecondaryMap_get(ag.adj_out, from), 2)

in_edges(ag, to) == MapIter(SecondaryMap_get(ag.adj_in, to), 1)

in_nodes(ag, to) == MapIter(SecondaryMap_get(ag.adj_in, to), 2)

(***************************************************************************)
(* The adjacency-list SlotGraph<K, V> of src/src/lib.rs: [nodes, adj_in,   *)
(* adj_out], nodes a SlotMap<K, V> and adj_in / adj_out SecondaryMaps of   *)
(* Vec<K>.  It has no node removal.  Mutating operations return [g, ret].  *)
(***************************************************************************)
\* Result::Err(k)
Err(k) == <<"Err", k>>

\* the () of Ok(())
Unit == <<>>

lib_with_key == [nodes |-> SlotMap_with_key, adj_out |-> SecondaryMap_new, adj_in |-> SecondaryMap_new]

lib_get(g, key) == SlotMap_get(g.nodes, key)

lib_insert_node(g, value) ==
    LET r == SlotMap_insert(g.nodes, value)
    IN  IF r.ret = Panic THEN [g |-> g, ret |-> Panic]
        ELSE [g |-> [nodes |-> r.map,
                     adj_in |-> SecondaryMap_insert(g.adj_in, unwrap(r.ret), <<>>),
                     adj_out |-> SecondaryMap_insert(g.adj_out, unwrap(r.ret), <<>>)],
              ret |-> r.ret]

lib_contains_node(g, key) == SlotMap_contains_key(g.nodes, key)

\* insert_edge pushing to from's list before it looks `to` up
lib_insert_edge_push_first(g, from, to) ==
    IF SecondaryMap_get(g.adj_out, from) = None THEN [g |-> g, ret |-> Err(from)]
    ELSE LET g1 == [g EXCEPT !.adj_out[from.idx].value = Append(@, to)]
         IN  IF SecondaryMap_get(g.adj_in, to) = None THEN [g |-> g1, ret |-> Err(to)]
             ELSE [g |-> [g1 EXCEPT !.adj_in[to.idx].value = Append(@, from)], ret |-> Ok(Unit)]

lib_insert_edge(g, from, to) ==
    IF SecondaryMap_get(g.adj_out, from) = None THEN [g |-> g, ret |-> Err(from)]
    ELSE IF SecondaryMap_get(g.adj_in, to) = None THEN [g |-> g, ret |-> Err(to)]
    ELSE [g |-> [g EXCEPT !.adj_out[from.idx].value = Append(@, to),
                          !.adj_in[to.idx].value = Append(@, from)],
          ret |-> Ok(Unit)]

\* iter().any(|&n| n == x)
any(list, x) == \E i \in 1..Len(list) : list[i] = x

lib_contains_edge(g, from, to) ==
    IF SecondaryMap_get(g.adj_out, from) = None THEN FALSE
    ELSE any(unwrap(SecondaryMap_get(g.adj_out, from)), from)

\* iter().position(|&node| node == x): Some(the first index), or None
position(list, x) ==
    IF any(list, x)
    THEN Some(CHOOSE i \in 1..Len(list) : list[i] = x /\ \A j \in 1..(i - 1) : list[j] # x)
    ELSE None

\* Vec::swap_remove(idx): the last element takes the place of the removed one
swap_remove(list, idx) ==
    [i \in 1..(Len(list) - 1) |-> IF i = idx THEN list[Len(list)] ELSE list[i]]

\* remove_edge taking the edge out of from's outgoing list only
lib_remove_edge_out_only(g, from, to) ==
    IF SecondaryMap_get(g.adj_out, from) = None THEN [g |-> g, ret |-> Err(from)]
    ELSE IF SecondaryMap_get(g.adj_in, to) = None THEN [g |-> g, ret |-> Err(to)]
    ELSE LET idx_out == position(g.adj_out[from.idx].value, to)
         IN  IF idx_out # None
             THEN [g |-> [g EXCEPT !.adj_out[from.idx].value = swap_remove(@, unwrap(idx_out))],
                   ret |-> Ok(Unit)]
             ELSE [g |-> g, ret |-> Ok(Unit)]

lib_remove_edge(g, from, to) ==
    IF SecondaryMap_get(g.adj_out, from) = None THEN [g |-> g, ret |-> Err(from)]
    ELSE IF SecondaryMap_get(g.adj_in, to) = None THEN [g |-> g, ret |-> Err(to)]
    ELSE LET idx_out == position(g.adj_out[from.idx].value, to)
             idx_in == position(g.adj_in[to.idx].value, from)
         IN  IF idx_out # None /\ idx_in # None
             THEN [g |-> [g EXCEPT !.adj_out[from.idx].value = swap_remove(@, unwrap(idx_out)),
                                   !.adj_in[to.idx].value = swap_remove(@, unwrap(idx_in))],
                   ret |-> Ok(Unit)]
             ELSE [g |-> g, ret |-> Ok(Unit)]

\* Option<Iter<K>> as Option<the sequence it yields>
lib_iter_in(g, node) == SecondaryMap_get(g.adj_in, node)

lib_iter_out(g, node) == SecondaryMap_get(g.adj_out, node)

(***************************************************************************)
(* State.  sg is the graph (AdjGraph's field of that name); adj_in and     *)
(* adj_out are AdjGraph's secondary maps; panicked records that a call     *)
(* panicked (the variables then hold what the call left behind).           *)
(* The remaining variables are the history of the calls made so far:       *)
(*   nIssued / eIssued    keys returned by insert_node / insert_edge       *)
(*   nRemoved / eRemoved  keys for which a remove returned Some            *)
(*   nLive / eLive        the entries inserted and not yet removed, as the *)
(*                        caller knows them: key -> payload given (nodes), *)
(*                        key -> [from, to, value] given (edges)           *)
(*   eOrder               the edge keys AdjGraph::insert_edge returned, in *)
(*                        call order                                       *)
(*   calls                the number of calls made                         *)
(*   nCount / eCount      the number of insert calls that returned and of  *)
(*                        remove calls that returned Some                  *)
(*   lg                   the adjacency-list SlotGraph of src/src/lib.rs   *)
(*   lEdges               the edges of lg as its caller knows them: the    *)
(*                        pair <<from, to>> -> the number of insert_edge   *)
(*                        calls that returned Ok minus the number of       *)
(*                        remove_edge calls that found the edge            *)
(***************************************************************************)
VARIABLES sg, adj_in, adj_out, panicked, calls, nIssued, nRemoved, nLive, nCount, eIssued, eRemoved, eLive, eCount, eOrder, lg, lEdges

vars == <<sg, adj_in, adj_out, panicked, calls, nIssued, nRemoved, nLive, nCount, eIssued, eRemoved, eLive, eCount, eOrder, lg, lEdges>>

adjVars == <<adj_in, adj_out, eOrder>>

libVars == <<lg, lEdges>>

nodeHist == <<nIssued, nRemoved, nLive, nCount>>

edgeHist == <<eIssued, eRemoved, eLive, eCount>>

\* the function f with key k (re)bound to x
Put(f, k, x) == [j \in DOMAIN f \cup {k} |-> IF j = k THEN x ELSE f[j]]

\* the function f without key k
Drop(f, k) == [j \in DOMAIN f \ {k} |-> f[j]]

EmptyMap == [j \in {} |-> None]

Init ==
    /\ sg = with_key
    /\ adj_in = SecondaryMap_new
    /\ adj_out = SecondaryMap_new
    /\ eOrder = <<>>
    /\ panicked = FALSE
    /\ calls = 0
    /\ nIssued = {}
    /\ nRemoved = {}
    /\ nLive = EmptyMap
    /\ nCount = [inserts |-> 0, removes |-> 0]
    /\ eIssued = {}
    /\ eRemoved = {}
    /\ eLive = EmptyMap
    /\ eCount = [inserts |-> 0, removes |-> 0]
    /\ lg = lib_with_key
    /\ lEdges = EmptyMap

\* a call can be made: no earlier call panicked, and the history is not full
Running == ~panicked /\ calls < MaxCalls

(***************************************************************************)
(* One action per mutating SlotGraph method.                               *)
(***************************************************************************)
InsertNode(value) ==
    /\ Running
    /\ calls' = calls + 1
    /\ LET r == insert_node(sg, value)
       IN  /\ sg' = r.sg
           /\ IF r.ret = Panic
              THEN /\ panicked' = TRUE
                   /\ UNCHANGED nodeHist
              ELSE /\ panicked' = FALSE
                   /\ nIssued' = nIssued \cup {unwrap(r.ret)}
                   /\ nLive' = Put(nLive, unwrap(r.ret), value)
                   /\ nCount' = [nCount EXCEPT !.inserts = @ + 1]
                   /\ UNCHANGED nRemoved
    /\ UNCHANGED <<adjVars, libVars, edgeHist>>

RemoveNode(key) ==
    /\ Running
    /\ calls' = calls + 1
    /\ LET r == remove_node(sg, key)
       IN  /\ sg' = r.sg
           /\ IF r.ret = None
              THEN UNCHANGED nodeHist
              ELSE /\ nRemoved' = nRemoved \cup {key}
                   /\ nLive' = Drop(nLive, key)
                   /\ nCount' = [nCount EXCEPT !.removes = @ + 1]
                   /\ UNCHANGED nIssued
    /\ UNCHANGED <<adjVars, libVars, panicked, edgeHist>>

GetNodeMut(key, value) ==
    /\ Running
    /\ calls' = calls + 1
    /\ LET r == get_node_mut(sg, key, value)
       IN  /\ sg' = r.sg
           /\ IF r.ret = None
              THEN UNCHANGED nodeHist
              ELSE /\ nLive' = Put(nLive, key, value)
                   /\ UNCHANGED <<nIssued, nRemoved, nCount>>
    /\ UNCHANGED <<adjVars, libVars, panicked, edgeHist>>

InsertEdge(from, to, value) ==
    /\ Running
    /\ calls' = calls + 1
    /\ LET r == insert_edge(sg, from, to, value)
       IN  /\ sg' = r.sg
           /\ IF r.ret = Panic
              THEN /\ panicked' = TRUE
                   /\ UNCHANGED edgeHist
              ELSE /\ panicked' = FALSE
                   /\ eIssued' = eIssued \cup {unwrap(r.ret)}
                   /\ eLive' = Put(eLive, unwrap(r.ret), EdgeValue(from, to, value))
                   /\ eCount' = [eCount EXCEPT !.inserts = @ + 1]
                   /\ UNCHANGED eRemoved
    /\ UNCHANGED <<adjVars, libVars, nodeHist>>

RemoveEdge(key) ==
    /\ Running
    /\ calls' = calls + 1
    /\ LET r == remove_edge(sg, key)
       IN  /\ sg' = r.sg
           /\ IF r.ret = None
              THEN UNCHANGED edgeHist
              ELSE /\ eRemoved' = eRemoved \cup {key}
                   /\ eLive' = Drop(eLive, key)
                   /\ eCount' = [eCount EXCEPT !.removes = @ + 1]
                   /\ UNCHANGED eIssued
    /\ UNCHANGED <<adjVars, libVars, panicked, nodeHist>>

GetEdgeMut(key, value) ==
    /\ Running
    /\ calls' = calls + 1
    /\ LET r == get_edge_mut(sg, key, value)
       IN  /\ sg' = r.sg
           /\ IF r.ret = None
              THEN UNCHANGED edgeHist
              ELSE /\ eLive' = Put(eLive, key, [eLive[key] EXCEPT !.value = value])
                   /\ UNCHANGED <<eIssued, eRemoved, eCount>>
    /\ UNCHANGED <<adjVars, libVars, panicked, nodeHist>>

Next ==
    \/ \E value \in Payloads : InsertNode(value)
    \/ \E key \in AllKeys : RemoveNode(key)
    \/ \E key \in AllKeys, value \in Payloads : GetNodeMut(key, value)
    \/ \E from \in EndKeys, to \in EndKeys, value \in Payloads : InsertEdge(from, to, value)
    \/ \E key \in AllKeys : RemoveEdge(key)
    \/ \E key \in AllKeys, value \in Payloads : GetEdgeMut(key, value)

Spec == Init /\ [][Next]_vars

(***************************************************************************)
(* AdjGraph: its two mutating methods are the only way to change it (the   *)
(* struct and its fields are private to the example).                      *)
(***************************************************************************)
ag == [sg |-> sg, adj_in |-> adj_in, adj_out |-> adj_out]

AdjInsertNode(value) ==
    /\ Running
    /\ calls' = calls + 1
    /\ LET r == AdjGraph_insert_node(ag, value)
       IN  /\ sg' = r.ag.sg
           /\ adj_in' = r.ag.adj_in
           /\ adj_out' = r.ag.adj_out
           /\ IF r.ret = Panic
              THEN /\ panicked' = TRUE
                   /\ UNCHANGED nodeHist
              ELSE /\ panicked' = FALSE
                   /\ nIssued' = nIssued \cup {unwrap(r.ret)}
                   /\ nLive' = Put(nLive, unwrap(r.ret), value)
                   /\ nCount' = [nCount EXCEPT !.inserts = @ + 1]
                   /\ UNCHANGED nRemoved
    /\ UNCHANGED <<edgeHist, eOrder, libVars>>

AdjInsertEdge(from, to, value) ==
    /\ Running
    /\ calls' = calls + 1
    /\ LET r == AdjGraph_insert_edge(ag, from, to, value)
       IN  /\ sg' = r.ag.sg
           /\ adj_in' = r.ag.adj_in
           /\ adj_out' = r.ag.adj_out
           /\ IF r.ret = Panic
              THEN /\ panicked' = TRUE
                   /\ UNCHANGED <<edgeHist, eOrder>>
              ELSE /\ panicked' = FALSE
                   /\ eIssued' = eIssued \cup {unwrap(r.ret)}
                   /\ eLive' = Put(eLive, unwrap(r.ret), EdgeValue(from, to, value))
                   /\ eCount' = [eCount EXCEPT !.inserts = @ + 1]
                   /\ eOrder' = Append(eOrder, unwrap(r.ret))
                   /\ UNCHANGED eRemoved
    /\ UNCHANGED <<nodeHist, libVars>>

NextAdj ==
    \/ \E value \in Payloads : AdjInsertNode(value)
    \/ \E from \in AdjEndKeys, to \in AdjEndKeys, value \in Payloads : AdjInsertEdge(from, to, value)

SpecAdj == Init /\ [][NextAdj]_vars

(***************************************************************************)
(* The adjacency-list SlotGraph of src/src/lib.rs and its caller.          *)
(***************************************************************************)

\* the number of edges from -> to the caller has inserted and not removed
EdgeCount(edges, from, to) == IF <<from, to>> \in DOMAIN edges THEN edges[<<from, to>>] ELSE 0

LibInsertNode(value) ==
    /\ Running
    /\ calls' = calls + 1
    /\ LET r == lib_insert_node(lg, value)
       IN  /\ lg' = r.g
           /\ IF r.ret = Panic
              THEN /\ panicked' = TRUE
                   /\ UNCHANGED nodeHist
              ELSE /\ panicked' = FALSE
                   /\ nIssued' = nIssued \cup {unwrap(r.ret)}
                   /\ nLive' = Put(nLive, unwrap(r.ret), value)
                   /\ nCount' = [nCount EXCEPT !.inserts = @ + 1]
                   /\ UNCHANGED nRemoved
    /\ UNCHANGED <<sg, adjVars, edgeHist, lEdges>>

LibInsertEdge(from, to) ==
    /\ Running
    /\ calls' = calls + 1
    /\ LET r == lib_insert_edge(lg, from, to)
       IN  /\ lg' = r.g
           /\ lEdges' = IF r.ret = Ok(Unit)
                        THEN Put(lEdges, <<from, to>>, EdgeCount(lEdges, from, to) + 1)
                        ELSE lEdges
    /\ UNCHANGED <<sg, adjVars, panicked, nodeHist, edgeHist>>

LibRemoveEdge(from, to) ==
    /\ Running
    /\ calls' = calls + 1
    /\ LET r == lib_remove_edge(lg, from, to)
       IN  /\ lg' = r.g
           /\ lEdges' = IF r.ret = Ok(Unit) /\ EdgeCount(lEdges, from, to) > 0
                        THEN Put(lEdges, <<from, to>>, EdgeCount(lEdges, from, to) - 1)
                        ELSE lEdges
    /\ UNCHANGED <<sg, adjVars, panicked, nodeHist, edgeHist>>

NextLib ==
    \/ \E value \in Payloads : LibInsertNode(value)
    \/ \E from \in AdjEndKeys, to \in AdjEndKeys : LibInsertEdge(from, to)
    \/ \E from \in AdjEndKeys, to \in AdjEndKeys : LibRemoveEdge(from, to)

SpecLib == Init /\ [][NextLib]_vars

(***************************************************************************)
(* Properties of SlotGraph, checked under Spec.                            *)
(***************************************************************************)

\* the ceiling of live entries of one arena (2^32 - 2 in the source)
Ceiling == U32_MAX - 1

\* C1 (handle freshness): a handle returned by an insert is found, with its
\* payload, in every state up to its removal; once a remove of it has
\* succeeded, get and remove on that handle value return None in every later
\* state, also after insertions that reuse its slot.  Nodes and edges alike.
C1_HandleFreshness ==
    /\ \A h \in DOMAIN nLive : get_node(sg, h) = Some(nLive[h])
    /\ \A h \in nRemoved : get_node(sg, h) = None /\ remove_node(sg, h).ret = None
    /\ \A h \in DOMAIN eLive : get_edge(sg, h) = Some(eLive[h].value)
    /\ \A h \in eRemoved : get_edge(sg, h) = None /\ remove_edge(sg, h).ret = None

\* C2 (handle uniqueness): no insert_node returns a NodeKey that an earlier
\* insert_node of the history returned, and no insert_edge an EdgeKey that an
\* earlier insert_edge returned.
C2_HandlesNeverRepeat ==
    [][/\ \A k \in (DOMAIN nLive') \ (DOMAIN nLive) : k \notin nIssued
       /\ \A k \in (DOMAIN eLive') \ (DOMAIN eLive) : k \notin eIssued]_vars

\* C4 (edge endpoint immutability): for every edge E inserted and not yet
\* removed, get_edge_nodes(E) is Some of the very (from, to) its insert_edge
\* was given, whatever calls were made in between.
C4_EndpointsImmutable ==
    \A E \in DOMAIN eLive : get_edge_nodes(sg, E) = Some(<<eLive[E].from, eLive[E].to>>)

\* C4 witness: an edge from the first node's key is live and still reports
\* it, after that node was removed and after another edge was removed.
C4_Witness ==
    \E E \in DOMAIN eLive :
        /\ eLive[E].from = KeyData(1, 1)
        /\ KeyData(1, 1) \in nRemoved
        /\ eRemoved # {}
        /\ E \notin eRemoved
        /\ get_edge_nodes(sg, E) = Some(<<KeyData(1, 1), eLive[E].to>>)

\* C5 (no cascading delete): in every state and for every node handle n,
\* remove_node(n) leaves the edge arena as it was: edge_len is unchanged and
\* every live edge is still live with the endpoints it was given, n
\* included; and get_node(n) is None after it.
C5_NoCascade ==
    \A n \in AllKeys :
        LET r == remove_node(sg, n)
        IN  /\ r.sg.edges = sg.edges
            /\ edge_len(r.sg) = edge_len(sg)
            /\ \A E \in DOMAIN eLive :
                   get_edge_nodes(r.sg, E) = Some(<<eLive[E].from, eLive[E].to>>)
            /\ get_node(r.sg, n) = None

\* C5 witness: remove_node succeeded on a node that is an endpoint of a live
\* edge; the edge still names the handle, which get_node no longer finds.
C5_Witness ==
    \E E \in DOMAIN eLive :
        LET n == eLive[E].from
        IN  /\ n \in nRemoved
            /\ get_node(sg, n) = None
            /\ get_edge_nodes(sg, E) = Some(<<n, eLive[E].to>>)
            /\ edge_len(sg) = Cardinality(DOMAIN eLive)

\* what C8 says of one insert_edge call made in the current state
InsertEdgeStores(from, to, value) ==
    LET r == insert_edge(sg, from, to, value)
    IN  /\ r.ret # Panic
        /\ unwrap(r.ret) \notin DOMAIN eLive
        /\ get_edge(r.sg, unwrap(r.ret)) = Some(value)
        /\ get_edge_nodes(r.sg, unwrap(r.ret)) = Some(<<from, to>>)
        /\ edge_len(r.sg) = edge_len(sg) + 1

C9_RemoveOnce ==
    /\ \A h \in AllKeys :
           LET r == remove_node(sg, h)
           IN  /\ r.ret = (IF h \in DOMAIN nLive THEN Some(nLive[h]) ELSE None)
               /\ h \in nRemoved => r.ret = None
               /\ r.ret = None => r.sg = sg
    /\ \A h \in AllKeys :
           LET r == remove_edge(sg, h)
           IN  /\ r.ret = (IF h \in DOMAIN eLive THEN Some(eLive[h].value) ELSE None)
               /\ h \in eRemoved => r.ret = None
               /\ r.ret = None => r.sg = sg

\* C10: an insert at the ceiling panics, and an insert never returns a handle
\* value issued earlier in the history: where the slot's generations are
\* used up it panics instead.
C10_ExhaustionPanics ==
    \A value \in Payloads :
        /\ LET r == insert_node(sg, value)
           IN  /\ node_len(sg) = Ceiling => r.ret = Panic
               /\ r.ret # Panic => unwrap(r.ret) \notin nIssued
        /\ LET r == insert_edge(sg, NullKey, NullKey, value)
           IN  /\ edge_len(sg) = Ceiling => r.ret = Panic
               /\ r.ret # Panic => unwrap(r.ret) \notin eIssued

(***************************************************************************)
(* Properties of AdjGraph, checked under SpecAdj.                          *)
(***************************************************************************)

\* the keys of the live edges of the base graph
LiveEdges == {SlotMap_iter(sg.edges)[i][1] : i \in 1..Len(SlotMap_iter(sg.edges))}

\* the adjacency list of node n in a secondary map, empty when n has no entry
ListOf(slots, n) ==
    IF SecondaryMap_get(slots, n) = None THEN <<>> ELSE unwrap(SecondaryMap_get(slots, n))

\* the number of occurrences of x in the sequence list
Count(list, x) == Cardinality({i \in 1..Len(list) : list[i] = x})

\* I3: every live edge E = (from, to) occurs exactly once, as (E, to), in
\* from's outgoing list and exactly once, as (E, from), in to's incoming
\* list, and every pair of a list is a live edge with those endpoints
AdjacencyConsistent ==
    /\ \A E \in LiveEdges :
           LET ends == unwrap(get_edge_nodes(sg, E))
           IN  /\ Count(ListOf(adj_out, ends[1]), <<E, ends[2]>>) = 1
               /\ Count(ListOf(adj_in, ends[2]), <<E, ends[1]>>) = 1
    /\ \A n \in AllKeys :
           /\ \A i \in 1..Len(ListOf(adj_out, n)) :
                  LET p == ListOf(adj_out, n)[i]
                  IN  /\ get_edge_nodes(sg, p[1]) = Some(<<n, p[2]>>)
                      /\ Count(ListOf(adj_out, n), p) = 1
           /\ \A i \in 1..Len(ListOf(adj_in, n)) :
                  LET p == ListOf(adj_in, n)[i]
                  IN  /\ get_edge_nodes(sg, p[1]) = Some(<<p[2], n>>)
                      /\ Count(ListOf(adj_in, n), p) = 1

\* C3 (adjacency consistency): I3 holds in every state reached by
\* insert_node / insert_edge calls on the AdjGraph that returned.
C3_AdjacencyConsistent == ~panicked => AdjacencyConsistent

\* C3 witness: two edges were inserted, a self-loop among them, and I3 holds.
C3_Witness ==
    /\ ~panicked
    /\ Cardinality(LiveEdges) = 2
    /\ \E E \in DOMAIN eLive : eLive[E].from = eLive[E].to
    /\ \E E \in DOMAIN eLive : eLive[E].from # eLive[E].to
    /\ AdjacencyConsistent

\* C6 (absence on unknown node): the four queries return None for a node
\* handle never inserted through the AdjGraph and Some(sequence) for every
\* node that was.
C6_AbsenceOnUnknown ==
    \A n \in AllKeys :
        IF n \in nIssued
        THEN /\ out_edges(ag, n) # None
             /\ out_nodes(ag, n) # None
             /\ in_edges(ag, n) # None
             /\ in_nodes(ag, n) # None
        ELSE /\ out_edges(ag, n) = None
             /\ out_nodes(ag, n) = None
             /\ in_edges(ag, n) = None
             /\ in_nodes(ag, n) = None

\* C6 witness: one node has an edge, another has none (Some of the empty
\* sequence), and a handle sharing the slot index of an inserted node but
\* another version, as well as the null key, have no entry.
C6_Witness ==
    /\ out_edges(ag, KeyData(1, 1)) = Some(<<KeyData(1, 1)>>)
    /\ out_edges(ag, KeyData(2, 1)) = Some(<<>>)
    /\ in_edges(ag, KeyData(1, 1)) = Some(<<>>)
    /\ out_edges(ag, KeyData(1, 3)) = None
    /\ in_nodes(ag, NullKey) = None

\* the subsequence of the edge keys in order whose edge has n as its `end`
\* ("from" or "to")
EdgesAt(order, end, n) ==
    LET F[i \in 0..Len(order)] ==
            IF i = 0 THEN <<>>
            ELSE IF eLive[order[i]][end] = n THEN Append(F[i - 1], order[i]) ELSE F[i - 1]
    IN  F[Len(order)]

\* the other endpoint (`end`) of each edge of a sequence of edge keys
EndsOf(keys, end) == [i \in 1..Len(keys) |-> eLive[keys[i]][end]]

\* C7 (adjacency query contents and order): for every node n inserted
\* through the AdjGraph, out_edges(n) is the edges inserted with from = n in
\* insertion order and out_nodes(n) their to endpoints; in_edges(n) is the
\* edges inserted with to = n in insertion order and in_nodes(n) their from
\* endpoints.
C7_QueriesInInsertionOrder ==
    ~panicked =>
        \A n \in nIssued :
            /\ out_edges(ag, n) = Some(EdgesAt(eOrder, "from", n))
            /\ out_nodes(ag, n) = Some(EndsOf(EdgesAt(eOrder, "from", n), "to"))
            /\ in_edges(ag, n) = Some(EdgesAt(eOrder, "to", n))
            /\ in_nodes(ag, n) = Some(EndsOf(EdgesAt(eOrder, "to", n), "from"))

\* C7 witness: the scenario n1, n2, e1 = n1 -> n2, then a second edge
\* e2 = n1 -> n1 after it.
C7_Witness ==
    LET n1 == KeyData(1, 1)
        n2 == KeyData(2, 1)
        e1 == KeyData(1, 1)
        e2 == KeyData(2, 1)
    IN  /\ ~panicked
        /\ eOrder = <<e1, e2>>
        /\ out_edges(ag, n1) = Some(<<e1, e2>>)
        /\ out_nodes(ag, n1) = Some(<<n2, n1>>)
        /\ in_edges(ag, n1) = Some(<<e2>>)
        /\ in_edges(ag, n2) = Some(<<e1>>)
        /\ in_nodes(ag, n2) = Some(<<n1>>)
        /\ out_edges(ag, n2) = Some(<<>>)

\* C16: AdjGraph::insert_edge(from, to, value) panics, returning no edge
\* handle, whenever from or to is not tracked in the index (was not returned
\* by AdjGraph::insert_node)
C16_PanicsOnUntracked ==
    \A n \in AllKeys, m \in AdjEndKeys, value \in Payloads :
        (n \notin nIssued \/ m \notin nIssued) =>
            /\ AdjGraph_insert_edge(ag, n, m, value).ret = Panic
            /\ AdjGraph_insert_edge(ag, m, n, value).ret = Panic

\* an insert_edge with an untracked endpoint has panicked below the ceiling:
\* the base graph holds one edge more than the calls that returned inserted
C16_Witness ==
    /\ panicked
    /\ nIssued # {}
    /\ edge_len(sg) < Ceiling
    /\ edge_len(sg) = Cardinality(DOMAIN eLive) + 1

\* C17: the index is updated atomically with edge insertion: in every
\* reachable state, the one a failed insert_edge leaves behind included,
\* every live edge of the base graph is in its from node's outgoing list and
\* in its to node's incoming list, and no edge is recorded in only one of
\* the two lists
C17_IndexAtomic ==
    /\ \A i \in 1..Len(iter_edge_nodes(sg)) :
           LET E == iter_edge_nodes(sg)[i][1]
               ends == iter_edge_nodes(sg)[i][2]
           IN  /\ Count(ListOf(adj_out, ends[1]), <<E, ends[2]>>) >= 1
               /\ Count(ListOf(adj_in, ends[2]), <<E, ends[1]>>) >= 1
    /\ \A n \in AllKeys :
           /\ \A i \in 1..Len(ListOf(adj_out, n)) :
                  LET p == ListOf(adj_out, n)[i]
                  IN  Count(ListOf(adj_in, p[2]), <<p[1], n>>) >= 1
           /\ \A i \in 1..Len(ListOf(adj_in, n)) :
                  LET p == ListOf(adj_in, n)[i]
                  IN  Count(ListOf(adj_out, p[2]), <<p[1], n>>) >= 1

(***************************************************************************)
(* Iteration and counts of SlotGraph, checked under Spec.                  *)
(***************************************************************************)

\* the sequence seq holds <<k, Item(k)>> once for every k of keys, and
\* nothing else
YieldsExactly(seq, keys, Item(_)) ==
    /\ Len(seq) = Cardinality(keys)
    /\ \A k \in keys : \E i \in 1..Len(seq) : seq[i] = <<k, Item(k)>>
    /\ \A i \in 1..Len(seq) : seq[i][1] \in keys /\ seq[i][2] = Item(seq[i][1])

\* C14: iter_nodes, iter_edges and iter_edge_nodes yield every live
\* (handle, value) pair exactly once and nothing else, so their item count is
\* node_len / edge_len
C14_IterationComplete ==
    LET NodeItem(k) == nLive[k]
        EdgeItem(k) == eLive[k].value
        EndsItem(k) == <<eLive[k].from, eLive[k].to>>
    IN  /\ YieldsExactly(iter_nodes(sg), DOMAIN nLive, NodeItem)
        /\ YieldsExactly(iter_edges(sg), DOMAIN eLive, EdgeItem)
        /\ YieldsExactly(iter_edge_nodes(sg), DOMAIN eLive, EndsItem)
        /\ Len(iter_nodes(sg)) = node_len(sg)
        /\ Len(iter_edges(sg)) = edge_len(sg)
        /\ Len(iter_edge_nodes(sg)) = edge_len(sg)

\* the slot of index 1 was vacated in both arenas and the slot of index 2
\* is live: the iterators skip the hole
C14_Witness ==
    /\ ~panicked
    /\ \E v \in Payloads : iter_nodes(sg) = <<<<KeyData(2, 1), v>>>>
    /\ \E v \in Payloads : iter_edges(sg) = <<<<KeyData(2, 1), v>>>>
    /\ \E k \in nRemoved : iter_edge_nodes(sg) = <<<<KeyData(2, 1), <<k, NullKey>> >>>>
    /\ nRemoved # {} /\ eRemoved # {}

\* C15: node_len / edge_len is the number of insert calls that returned
\* minus the number of remove calls that returned Some; a remove that
\* returns None and get / get_mut leave the counts as they are
C15_LenCounts ==
    /\ node_len(sg) = nCount.inserts - nCount.removes
    /\ edge_len(sg) = eCount.inserts - eCount.removes
    /\ \A key \in AllKeys :
           LET rn == remove_node(sg, key)
               re == remove_edge(sg, key)
           IN  /\ node_len(rn.sg) = IF rn.ret = None THEN node_len(sg) ELSE node_len(sg) - 1
               /\ edge_len(re.sg) = IF re.ret = None THEN edge_len(sg) ELSE edge_len(sg) - 1
               /\ \A value \in Payloads :
                      /\ node_len(get_node_mut(sg, key, value).sg) = node_len(sg)
                      /\ edge_len(get_edge_mut(sg, key, value).sg) = edge_len(sg)

\* two nodes inserted and one removed, an edge inserted and removed: the
\* removed handles now fail to remove and to get
C15_Witness ==
    /\ ~panicked
    /\ nCount = [inserts |-> 2, removes |-> 1]
    /\ eCount = [inserts |-> 1, removes |-> 1]
    /\ node_len(sg) = 1 /\ edge_len(sg) = 0
    /\ \E key \in nRemoved : remove_node(sg, key).ret = None /\ get_node(sg, key) = None
    /\ \E key \in eRemoved : remove_edge(sg, key).ret = None /\ get_edge(sg, key) = None

\* C18: the node and edge arenas are independent: insert_node, remove_node
\* and get_node_mut leave the edge arena (handles, payloads, endpoints,
\* edge_len) unchanged, and insert_edge, remove_edge and get_edge_mut leave
\* the node arena unchanged, also for a handle that is live in both arenas
C18_ArenasIndependent ==
    /\ \A value \in Payloads :
           /\ insert_node(sg, value).sg.edges = sg.edges
           /\ \A from \in EndKeys, to \in EndKeys :
                  insert_edge(sg, from, to, value).sg.nodes = sg.nodes
    /\ \A key \in AllKeys :
           /\ remove_node(sg, key).sg.edges = sg.edges
           /\ remove_edge(sg, key).sg.nodes = sg.nodes
           /\ \A value \in Payloads :
                  /\ get_node_mut(sg, key, value).sg.edges = sg.edges
                  /\ get_edge_mut(sg, key, value).sg.nodes = sg.nodes

\* the first node and the first edge carry the same slot index and version;
\* the node was removed and the edge is still there, and removing the second
\* edge would leave the second node, of the same index and version, alone
C18_Witness ==
    LET k1 == KeyData(1, 1)
        k2 == KeyData(2, 1)
    IN  /\ k1 \in nRemoved /\ get_node(sg, k1) = None
        /\ k1 \in DOMAIN eLive /\ get_edge(sg, k1) = Some(eLive[k1].value)
        /\ get_edge_nodes(sg, k1) = Some(<<k1, k1>>)
        /\ k2 \in DOMAIN nLive /\ k2 \in DOMAIN eLive
        /\ remove_edge(sg, k2).ret # None
        /\ get_node(remove_edge(sg, k2).sg, k2) = Some(nLive[k2])

(***************************************************************************)
(* Properties of the adjacency-list SlotGraph of lib.rs, checked under     *)
(* SpecLib.                                                                *)
(***************************************************************************)

\* C11: contains_edge(from, to) is true exactly when the graph currently
\* contains an edge from -> to (one inserted by insert_edge and not removed
\* since), and false when either node does not exist
C11_ContainsEdge ==
    \A from \in AdjEndKeys, to \in AdjEndKeys :
        /\ lib_contains_edge(lg, from, to) <=> (EdgeCount(lEdges, from, to) > 0)
        /\ (~lib_contains_node(lg, from) \/ ~lib_contains_node(lg, to)) => ~lib_contains_edge(lg, from, to)

\* C12: iter_in(node) iterates over the nodes that node points to: while an
\* edge n1 -> n2 inserted by insert_edge is in the graph, iter_in(n1) yields n2
C12_IterInYieldsTargets ==
    \A n1 \in AdjEndKeys, n2 \in AdjEndKeys :
        EdgeCount(lEdges, n1, n2) > 0 =>
            /\ lib_iter_in(lg, n1) # None
            /\ any(unwrap(lib_iter_in(lg, n1)), n2)

\* what insert_edge(from, to) and remove_edge(from, to) are to return, by the
\* nodes the caller has inserted (lib.rs has no node removal)
Expected(from, to) ==
    IF from \notin nIssued THEN Err(from)
    ELSE IF to \notin nIssued THEN Err(to)
    ELSE Ok(Unit)

\* C13: insert_edge and remove_edge return Err(k) exactly when from or to is
\* not a node of the graph, k being from when from is missing and to
\* otherwise, and Ok(()) when both are nodes; on Err no adjacency list is
\* modified
C13_ErrExactlyWhenMissing ==
    \A from \in AdjEndKeys, to \in AdjEndKeys :
        LET ri == lib_insert_edge(lg, from, to)
            rr == lib_remove_edge(lg, from, to)
        IN  /\ ri.ret = Expected(from, to)
            /\ rr.ret = Expected(from, to)
            /\ (from \in nIssued) = lib_contains_node(lg, from)
            /\ ri.ret # Ok(Unit) => ri.g = lg
            /\ rr.ret # Ok(Unit) => rr.g = lg

\* one node n1 with a self-loop: a missing `to` is reported as Err(to), a
\* missing `from` as Err(from) even when `to` is missing too
C13_Witness ==
    LET n1 == KeyData(1, 1)
        n2 == KeyData(2, 1)
    IN  /\ nIssued = {n1}
        /\ EdgeCount(lEdges, n1, n1) > 0
        /\ lib_insert_edge(lg, n1, n2) = [g |-> lg, ret |-> Err(n2)]
        /\ lib_remove_edge(lg, n1, n2) = [g |-> lg, ret |-> Err(n2)]
        /\ lib_insert_edge(lg, NullKey, n2).ret = Err(NullKey)
        /\ lib_remove_edge(lg, n2, n1).ret = Err(n2)
        /\ lib_insert_edge(lg, n1, n1).ret = Ok(Unit)

\* C19: adj_out and adj_in are mirror images: b occurs in adj_out[a] as often
\* as a occurs in adj_in[b]; a successful insert_edge(a, b) raises both
\* counts by one; remove_edge(a, b) lowers both by exactly one when they are
\* positive and leaves both lists unchanged when they are zero
C19_MirrorImages ==
    \A a \in AdjEndKeys, b \in AdjEndKeys :
        LET nOut(g) == Count(ListOf(g.adj_out, a), b)
            nIn(g) == Count(ListOf(g.adj_in, b), a)
            ri == lib_insert_edge(lg, a, b)
            rr == lib_remove_edge(lg, a, b)
        IN  /\ nOut(lg) = nIn(lg)
            /\ nOut(lg) = EdgeCount(lEdges, a, b)
            /\ ri.ret = Ok(Unit) => nOut(ri.g) = nOut(lg) + 1 /\ nIn(ri.g) = nIn(lg) + 1
            /\ rr.ret = Ok(Unit) /\ nOut(lg) > 0 => nOut(rr.g) = nOut(lg) - 1 /\ nIn(rr.g) = nIn(lg) - 1
            /\ rr.ret = Ok(Unit) /\ nOut(lg) = 0 => rr.g = lg

\* parallel edges n1 -> n2 of which one was removed, beside an edge n2 -> n1
\* and a pair of nodes without an edge
C19_Witness ==
    LET n1 == KeyData(1, 1)
        n2 == KeyData(2, 1)
    IN  /\ ListOf(lg.adj_out, n1) = <<n2>>
        /\ ListOf(lg.adj_in, n2) = <<n1>>
        /\ ListOf(lg.adj_out, n2) = <<n1>>
        /\ EdgeCount(lEdges, n1, n2) = 1
        /\ <<n2, n2>> \in DOMAIN lEdges /\ lEdges[<<n2, n2>>] = 0
        /\ lib_remove_edge(lg, n1, n1) = [g |-> lg, ret |-> Ok(Unit)]

====
